---- MODULE Spec2Model ----
(***************************************************************************)
(* Model of the Bokio API client (bokio/client.go): OAuth2 token store,    *)
(* token-bucket rate limiter, resty retry policy, read-only gate and the   *)
(* request path makeRequest, with concurrent callers.                      *)
(*                                                                         *)
(* Time is counted in minutes.  Strings of the program are strings here;   *)
(* the zero time.Time is ZeroTime.  Sections guarded by tokenMutex contain *)
(* no I/O and are taken as one atomic step each in Spec and SeqSpec;       *)
(* LockSpec takes them apart and models the lock itself.                   *)
(***************************************************************************)
EXTENDS Integers, Sequences, FiniteSets, TLC

(* ------------------------------ bounds -------------------------------- *)
MaxTime == 2
MaxRetries == 1
RateLimit == 1

(* ------------------------- program constants -------------------------- *)
RefreshSkew == 5
ZeroTime == 0
StatusOK == 200
StatusTooManyRequests == 429
DefaultRateLimit == 10

Threads == {"main", "other"}
ExpiresInValues == {0, 5}
Methods == {"GET", "HEAD", "OPTIONS", "POST", "PUT", "PATCH", "DELETE"}
Paths == {"/journal-entries", "/customers"}
Absent == "<absent>"
AccessTokens == {"A1", "A2"}
RefreshTokens == {"R1", "R2"}
Malformed == [json |-> FALSE, access_token |-> Absent, refresh_token |-> Absent,
              expires_in |-> 0, tenant_id |-> Absent, tenant_type |-> Absent]
TokenBodies ==
  {Malformed} \cup
  { [json |-> TRUE, access_token |-> a, refresh_token |-> r, expires_in |-> e,
     tenant_id |-> tn[1], tenant_type |-> tn[2]] :
       a \in AccessTokens \cup {Absent}, r \in RefreshTokens \cup {Absent},
       e \in ExpiresInValues,
       tn \in {<<Absent, Absent>>, <<"T1", "company">>} }
TokenStatuses == {200, 400, 503}
ResourceStatuses == {200, 404, 429, 503}
ErrorBodies == {"<html>", "{}", "{code:1001}"}
ConcurrentMethods == {"GET"}
ConcurrentTokenBodies ==
  {Malformed} \cup
  { [json |-> TRUE, access_token |-> a, refresh_token |-> r, expires_in |-> e,
     tenant_id |-> "T1", tenant_type |-> "company"] :
       a \in {"A1", Absent}, r \in {"R1", Absent},
       e \in ExpiresInValues }

VARIABLES
  readOnly,      \* Client.readOnly
  rateLimit,     \* Config.RateLimit
  rateLimiter,   \* number of permits buffered in Client.rateLimiter
  accessToken, refreshToken, tokenExpiry, tenantID, tenantType,
  now,           \* wall clock
  sequential,    \* TRUE: one caller, one operation at a time
  released,      \* the application has given the client up
  tokenMutex,    \* Client.tokenMutex: who holds it shared, who exclusively
  built,         \* the last constructor call: its input and what it returned
  auth,          \* the AuthClient (static integration token), if one is built
  wire,          \* the last request authenticatedHTTPClient.Do handed on
  call,          \* per caller: the operation it is in and that call's locals
  res            \* per caller: what its last operation returned

tokenVars == <<accessToken, refreshToken, tokenExpiry, tenantID, tenantType>>
configVars == <<readOnly, rateLimit, sequential>>
clientVars == <<configVars, released, tokenMutex>>
authVars == <<built, auth, wire>>
vars == <<clientVars, authVars, rateLimiter, tokenVars, now, call, res>>

\* Locals of a call.  pc: position; op: operation; method: makeRequest's
\* argument; ctx: the caller's context ("live", "precancelled": done before
\* the call, "cancelled": done during it); check: what ensureValidToken found
\* ("none", "valid", "window": refresh due, "past": refresh due and expiry
\* passed); tokReqs: token-endpoint requests sent; got: access token the
\* call's refresh stored; bearer: token in the Authorization header of the
\* request; attempts: resource requests sent; status: status of the last
\* response resty saw; snap: RefreshAccessToken's copy of the refresh token;
\* tokenResp: the decoded token response about to be stored.  snap and
\* tokenResp are kept where the locked sections are taken apart (LockSpec).
ZeroTokenResponse ==
  [ok |-> FALSE, AccessToken |-> "", RefreshToken |-> "", ExpiresIn |-> 0,
   TenantID |-> "", TenantType |-> ""]
Idle == [pc |-> "idle", op |-> "none", method |-> "GET", ctx |-> "live",
         check |-> "none", tokReqs |-> 0, got |-> "", bearer |-> "",
         attempts |-> 0, status |-> 0, snap |-> "",
         tokenResp |-> ZeroTokenResponse]

\* ctx.Done() is closed
Done(c) == c # "live"

Result(kind, status, code, detail) ==
  [kind |-> kind, status |-> status, code |-> code, detail |-> detail]
NoResult == Result("none", 0, 0, <<>>)

(* ------------------------- pure functions ----------------------------- *)

\* mutants of the gate's method test: PATCH forgotten; only GET let through
IsWriteMethodNoPatch(m) == m \in {"POST", "PUT", "DELETE"}
IsWriteMethodNotGet(m) == m # "GET"

\* client.go:403: the methods the read-only gate applies to
IsWriteMethod(m) == m # "GET" /\ m # "HEAD" /\ m # "OPTIONS"

\* client.go:231-236: validateWriteOperation
validateWriteOperation(ro, m, p) ==
  IF ro THEN Result("readonly", 0, 0, <<m, p>>) ELSE NoResult

\* client.go:402-407: the read-only gate; NoResult lets the call through
ReadOnlyGate(ro, m, p) ==
  IF IsWriteMethod(m) THEN validateWriteOperation(ro, m, p) ELSE NoResult

\* client.go:440-453: the methods the dispatch switch knows
IsSupportedMethod(m) == m \in {"GET", "POST", "PUT", "DELETE", "PATCH"}

\* mutant: every error status is retried
RetryConditionAnyError(status) == status >= 400

\* client.go:175-177: the retry condition given to resty
RetryCondition(status) == status >= 500 \/ status = StatusTooManyRequests

\* mutant: one attempt too many
NeedsRetryOnceMore(status, sent) == RetryCondition(status) /\ sent <= MaxRetries + 1

\* client.go:171: resty makes another attempt while retries remain
NeedsRetry(status, sent) == RetryCondition(status) /\ sent <= MaxRetries

\* mutant: the token check does not look for an access token
HasTokenAlways(tok) == TRUE

\* client.go:384: hasToken
HasToken(tok) == tok # ""

\* mutant: every token counts as due for refresh
IsExpiredAlways(t, expiry) == TRUE

\* mutant: a token exactly the skew away from its expiry counts as due
IsExpiredAtBoundary(t, expiry) == t + RefreshSkew >= expiry

\* client.go:385: time.Now().Add(5 * time.Minute).After(c.tokenExpiry)
IsExpired(t, expiry) == t + RefreshSkew > expiry

\* mutant: expiry is not looked at
IsAuthenticatedNoExpiry(tok, t, expiry) == tok # ""

\* client.go:522-527
IsAuthenticatedAt(tok, t, expiry) == tok # "" /\ t < expiry

\* json.Unmarshal into TokenResponse (client.go:100-108): absent fields are zero
StringField(v) == IF v = Absent THEN "" ELSE v
ParseTokenResponse(body) ==
  [ok |-> body.json,
   AccessToken |-> StringField(body.access_token),
   RefreshToken |-> StringField(body.refresh_token),
   ExpiresIn |-> body.expires_in,
   TenantID |-> StringField(body.tenant_id),
   TenantType |-> StringField(body.tenant_type)]

\* client.go:492-513: handleAPIError, the Code of the APIError it builds
APIErrorCode(status, body) ==
  LET parsed == body # "<html>"
      code == IF body = "{code:1001}" THEN 1001 ELSE 0
  IN IF ~parsed THEN status
     ELSE IF code = 0 THEN status ELSE code

handleAPIError(status, body) ==
  Result("apierror", status, APIErrorCode(status, body), <<>>)

\* client.go:455-464: classification of the final response
Classify(status, body) ==
  IF status >= 400 THEN handleAPIError(status, body)
  ELSE Result("ok", status, 0, <<>>)

IsAuthenticated == IsAuthenticatedAt(accessToken, now, tokenExpiry)
GetTenantInfo == <<tenantID, tenantType>>

(* --------------------------- construction ----------------------------- *)

\* Config.RateLimit as configured: negative, zero, positive
ConfigRateLimits == {-1, 0, RateLimit}
\* a *Config with every field zero; nil: the pointer itself is nil.  The
\* fields are those of client.go:50-71 and auth_client.go:23-27 that the
\* constructors read.
ZeroConfig ==
  [nil |-> FALSE, ClientID |-> "", ClientSecret |-> "", RateLimit |-> 0,
   ReadOnly |-> FALSE, IntegrationToken |-> ""]
\* the *Config NewClient is given
ClientConfigs ==
  { [ZeroConfig EXCEPT !.ClientID = i, !.ClientSecret = k, !.RateLimit = n,
                       !.ReadOnly = ro] :
      i \in {"", "id"}, k \in {"", "secret"}, n \in ConfigRateLimits,
      ro \in BOOLEAN }
  \cup {[ZeroConfig EXCEPT !.nil = TRUE]}
\* the *Config NewAuthClient is given
IntegrationTokens == {"T1", "T2"}
AuthConfigs ==
  { [ZeroConfig EXCEPT !.IntegrationToken = tok, !.ReadOnly = ro] :
      tok \in IntegrationTokens \cup {""}, ro \in BOOLEAN }

\* client.go:125-135: no credentials, ReadOnly left false
DefaultConfig == [ZeroConfig EXCEPT !.RateLimit = DefaultRateLimit]

\* client.go:139-141
EffectiveConfig(cfg) == IF cfg.nil THEN DefaultConfig ELSE cfg

\* mutant: only the client ID is required
NewClientErrorIdOnly(cfg) ==
  IF EffectiveConfig(cfg).ClientID = "" THEN "credentials" ELSE ""

\* client.go:139-145: the error NewClient returns, "" for none
NewClientError(cfg) ==
  LET c == EffectiveConfig(cfg)
  IN IF c.ClientID = "" \/ c.ClientSecret = "" THEN "credentials" ELSE ""

\* auth_client.go:43-51: the error of company.NewClient / general.NewClient.
\* The generated packages are not part of the sources at hand; the calls are
\* given a base URL and the HTTP doer, and TestNewAuthClient
\* (auth_client_test.go:88-131) has them return none.
GeneratedNewClientError == ""

\* auth_client.go:31-51: the error NewAuthClient returns, "" for none
NewAuthClientError(cfg) ==
  IF cfg.IntegrationToken = "" THEN "token" ELSE GeneratedNewClientError

\* mutant: a negative limit is taken for its size
RateLimiterCapacityAbs(n) == IF n >= 0 THEN n ELSE 0 - n

\* client.go:191-197: capacity of the permit channel; 0: the channel is nil
RateLimiterCapacity(n) == IF n > 0 THEN n ELSE 0

\* what is known of a constructor call: its input, the error, whether a
\* client came back, whether the ticker goroutine was started
NotCalled ==
  [called |-> FALSE, config |-> ZeroConfig, err |-> "", client |-> FALSE,
   ticker |-> FALSE]
NoCalls == [c \in {"NewClient", "NewAuthClient"} |-> NotCalled]
NoAuthClient == [live |-> FALSE, token |-> "", readOnly |-> FALSE]
NoRequest == [method |-> "", path |-> "", prior |-> <<>>, authorization |-> <<>>]
\* client.go:36: the zero sync.RWMutex: no reader, no writer
Unlocked == [readers |-> {}, writer |-> "none"]

(* ------------------------------ Init ---------------------------------- *)

\* client.go:138-223: the client NewClient returns
InitCommon ==
  /\ \E cfg \in ClientConfigs :
       /\ NewClientError(cfg) = ""
       /\ readOnly = EffectiveConfig(cfg).ReadOnly
       /\ rateLimit = RateLimiterCapacity(EffectiveConfig(cfg).RateLimit)
  /\ rateLimiter = rateLimit
  /\ built = NoCalls /\ auth = NoAuthClient /\ wire = NoRequest
  /\ accessToken = "" /\ refreshToken = "" /\ tokenExpiry = ZeroTime
  /\ tenantID = "" /\ tenantType = ""
  /\ now = 1
  /\ released = FALSE
  /\ tokenMutex = Unlocked
  /\ call = [t \in Threads |-> Idle]
  /\ res = [t \in Threads |-> NoResult]

Init == InitCommon /\ sequential = FALSE /\ readOnly = FALSE
InitSeq == InitCommon /\ sequential = TRUE

(* ----------------------------- helpers -------------------------------- *)

CanStart(t) ==
  /\ call[t].pc = "idle" /\ ~released
  /\ sequential => t = "main"

\* the inputs callers draw from
InputMethods == IF sequential THEN Methods ELSE ConcurrentMethods
InputContexts == IF sequential THEN {"live", "precancelled"} ELSE {"live"}
InputTokenBodies == IF sequential THEN TokenBodies ELSE ConcurrentTokenBodies
InputAccessTokens == IF sequential THEN AccessTokens ELSE {"A1"}
InputRefreshTokens == IF sequential THEN RefreshTokens ELSE {"R1"}

\* a caller enters an operation with fresh locals
Enter(t, o, m, c, p, n) ==
  /\ call' = [call EXCEPT ![t] = [Idle EXCEPT !.pc = p, !.op = o, !.method = m,
                                               !.ctx = c, !.tokReqs = n]]
  /\ res' = [res EXCEPT ![t] = NoResult]

\* what is kept of a returned value: all of it for the single caller, its
\* kind for concurrent callers
Recorded(r) == IF sequential THEN r ELSE Result(r.kind, 0, 0, <<>>)

\* the operation returns r; its locals are gone
Return(t, r) ==
  /\ call' = [call EXCEPT ![t] = Idle]
  /\ res' = [res EXCEPT ![t] = Recorded(r)]

Goto(t, p) ==
  /\ call' = [call EXCEPT ![t].pc = p]
  /\ UNCHANGED res

(* --------------------------- makeRequest ------------------------------ *)

\* client.go:401-407: entry and read-only gate
MakeRequest(t) ==
  /\ CanStart(t)
  /\ \E m \in InputMethods, p \in Paths, c \in InputContexts :
       LET err == ReadOnlyGate(readOnly, m, p)
       IN IF err # NoResult
          THEN Return(t, err)
          ELSE Enter(t, "request", m, c, "acquire", 0)
  /\ UNCHANGED <<clientVars, authVars, rateLimiter, tokenVars, now>>

\* mutant: an empty bucket does not hold the call back
RateLimitAcquireNoWait(t) ==
  /\ call[t].pc = "acquire"
  /\ rateLimiter' = IF rateLimiter > 0 THEN rateLimiter - 1 ELSE 0
  /\ Goto(t, "ensure")
  /\ UNCHANGED <<clientVars, authVars, tokenVars, now>>

\* mutant: a call passes a non-empty bucket without taking the permit
RateLimitAcquireKeepsPermit(t) ==
  /\ call[t].pc = "acquire"
  /\ \/ /\ rateLimit = 0 \/ rateLimiter > 0
        /\ Goto(t, "ensure")
     \/ /\ rateLimit > 0 /\ Done(call[t].ctx)
        /\ Return(t, Result("cancelled", 0, 0, <<>>))
  /\ UNCHANGED <<clientVars, authVars, rateLimiter, tokenVars, now>>

\* client.go:409-416: select on the rate limiter and ctx.Done()
RateLimitAcquire(t) ==
  /\ call[t].pc = "acquire"
  /\ \/ /\ rateLimit = 0
        /\ Goto(t, "ensure")
        /\ UNCHANGED rateLimiter
     \/ /\ rateLimit > 0 /\ rateLimiter > 0
        /\ rateLimiter' = rateLimiter - 1
        /\ Goto(t, "ensure")
     \/ /\ rateLimit > 0 /\ Done(call[t].ctx)
        /\ Return(t, Result("cancelled", 0, 0, <<>>))
        /\ UNCHANGED rateLimiter
  /\ UNCHANGED <<clientVars, authVars, tokenVars, now>>

\* client.go:382-398 and 418-421: ensureValidToken as called by makeRequest
EnsureValidToken(t) ==
  /\ call[t].pc = "ensure"
  /\ LET hasToken == HasToken(accessToken)
         isExpired == IsExpired(now, tokenExpiry)
         hasRefreshToken == refreshToken # ""
     IN IF ~hasToken
        THEN Return(t, Result("notauth", 0, 0, <<>>))
        ELSE IF isExpired /\ hasRefreshToken
        THEN /\ call' = [call EXCEPT ![t].pc = "refresh",
                           ![t].check = IF tokenExpiry <= now THEN "past"
                                        ELSE "window"]
             /\ UNCHANGED res
        ELSE /\ call' = [call EXCEPT ![t].pc = "token", ![t].check = "valid"]
             /\ UNCHANGED res
  /\ UNCHANGED <<clientVars, authVars, rateLimiter, tokenVars, now>>

(* ------------------------- token endpoint ----------------------------- *)

\* client.go:276-283: ExchangeCodeForToken stores the whole response
StoreExchange(tr) ==
  /\ accessToken' = tr.AccessToken
  /\ refreshToken' = tr.RefreshToken
  /\ tokenExpiry' = now + tr.ExpiresIn
  /\ tenantID' = tr.TenantID
  /\ tenantType' = tr.TenantType

\* mutant: the refreshed access token is not stored
StoreRefreshKeepsAccess(tr) ==
  /\ refreshToken' = IF tr.RefreshToken # "" THEN tr.RefreshToken ELSE refreshToken
  /\ tokenExpiry' = now + tr.ExpiresIn
  /\ UNCHANGED <<accessToken, tenantID, tenantType>>

\* mutant: the refresh token is overwritten by whatever the response has
StoreRefreshOverwritesRefresh(tr) ==
  /\ accessToken' = tr.AccessToken
  /\ refreshToken' = tr.RefreshToken
  /\ tokenExpiry' = now + tr.ExpiresIn
  /\ UNCHANGED <<tenantID, tenantType>>

\* client.go:327-334: RefreshAccessToken keeps the tenant, and the refresh
\* token when the response has none
StoreRefresh(tr) ==
  /\ accessToken' = tr.AccessToken
  /\ refreshToken' = IF tr.RefreshToken # "" THEN tr.RefreshToken ELSE refreshToken
  /\ tokenExpiry' = now + tr.ExpiresIn
  /\ UNCHANGED <<tenantID, tenantType>>

\* client.go:369-375: AuthenticateClientCredentials leaves the refresh token
StoreClientCredentials(tr) ==
  /\ accessToken' = tr.AccessToken
  /\ tokenExpiry' = now + tr.ExpiresIn
  /\ tenantID' = tr.TenantID
  /\ tenantType' = tr.TenantType
  /\ UNCHANGED refreshToken

\* mutant: a request call whose refresh failed goes on with the token it has
TokenFailureGoesOn(t, r) ==
  /\ IF call[t].op = "request"
     THEN call' = [call EXCEPT ![t].pc = "token"] /\ UNCHANGED res
     ELSE Return(t, [r EXCEPT !.detail = <<call[t].op>>])
  /\ UNCHANGED tokenVars

\* mutant: a failed token request clears the stored access token
TokenFailureClearsToken(t, r) ==
  /\ Return(t, [r EXCEPT !.detail = <<call[t].op>>])
  /\ accessToken' = ""
  /\ UNCHANGED <<refreshToken, tokenExpiry, tenantID, tenantType>>

\* client.go:263-274, 314-325, 356-367: the error returns of a token request;
\* nothing is stored.  detail: the operation the error came from.
TokenFailure(t, r) ==
  /\ Return(t, [r EXCEPT !.detail = <<call[t].op>>])
  /\ UNCHANGED tokenVars

\* The POST /token round trip once the request is out (client.go:257-274,
\* 308-325, 350-367).  The request carries no context.  resty repeats it while
\* the retry condition holds and retries remain; a transport error has status
\* 0 and is not retried.
TokenRespond(t, o) ==
  /\ \/ TokenFailure(t, Result("neterr", 0, 0, <<>>))
     \/ \E status \in TokenStatuses :
          /\ NeedsRetry(status, call[t].tokReqs)
          /\ call' = [call EXCEPT ![t].tokReqs = @ + 1]
          /\ UNCHANGED <<tokenVars, res>>
     \/ \E status \in TokenStatuses \ {StatusOK}, body \in ErrorBodies :
          /\ ~NeedsRetry(status, call[t].tokReqs)
          /\ TokenFailure(t, handleAPIError(status, body))
     \/ \E body \in InputTokenBodies :
          LET tr == ParseTokenResponse(body)
          IN IF ~tr.ok
             THEN TokenFailure(t, Result("decode", 0, 0, <<>>))
             ELSE /\ CASE o = "exchange" -> StoreExchange(tr)
                       [] o = "refresh" -> StoreRefresh(tr)
                       [] OTHER -> StoreClientCredentials(tr)
                  /\ IF call[t].op = "request"
                     THEN /\ call' = [call EXCEPT ![t].pc = "token",
                                                  ![t].got = tr.AccessToken]
                          /\ UNCHANGED res
                     ELSE Return(t, Result("ok", StatusOK, 0,
                                           <<tr.TenantID, tr.TenantType>>))
  /\ UNCHANGED <<clientVars, authVars, rateLimiter, now>>

\* client.go:244-261: ExchangeCodeForToken up to the POST
ExchangeCodeForToken(t) ==
  /\ CanStart(t)
  /\ \E c \in InputContexts : Enter(t, "exchange", "POST", c, "rfly", 1)
  /\ UNCHANGED <<clientVars, authVars, rateLimiter, tokenVars, now>>

\* client.go:263-287
ExchangeRespond(t) ==
  /\ call[t].pc = "rfly" /\ call[t].op = "exchange"
  /\ TokenRespond(t, "exchange")

\* client.go:341-354: AuthenticateClientCredentials up to the POST
AuthenticateClientCredentials(t) ==
  /\ CanStart(t)
  /\ \E c \in InputContexts : Enter(t, "clientcreds", "POST", c, "rfly", 1)
  /\ UNCHANGED <<clientVars, authVars, rateLimiter, tokenVars, now>>

\* client.go:356-379
ClientCredentialsRespond(t) ==
  /\ call[t].pc = "rfly" /\ call[t].op = "clientcreds"
  /\ TokenRespond(t, "clientcreds")

\* client.go:290: RefreshAccessToken called by the application
RefreshAccessToken(t) ==
  /\ CanStart(t)
  /\ \E c \in InputContexts : Enter(t, "refresh", "POST", c, "refresh", 0)
  /\ UNCHANGED <<clientVars, authVars, rateLimiter, tokenVars, now>>

\* mutant: the refresh token is not looked at before the POST
HasRefreshTokenAlways(tok) == TRUE

\* client.go:295: the snapshot of the refresh token is not empty
HasRefreshToken(tok) == tok # ""

\* client.go:291-312: snapshot of the refresh token, then the POST
RefreshSend(t) ==
  /\ call[t].pc = "refresh"
  /\ IF ~HasRefreshToken(refreshToken)
     THEN Return(t, Result("norefresh", 0, 0, <<>>))
     ELSE /\ call' = [call EXCEPT ![t].pc = "rfly", ![t].tokReqs = @ + 1]
          /\ UNCHANGED res
  /\ UNCHANGED <<clientVars, authVars, rateLimiter, tokenVars, now>>

\* client.go:314-338
RefreshRespond(t) ==
  /\ call[t].pc = "rfly" /\ call[t].op \in {"request", "refresh"}
  /\ TokenRespond(t, "refresh")

(* ---------------------- dispatch and retries -------------------------- *)

\* client.go:423-453: read the token, build the request, first attempt.
\* A request whose context is already done is refused by the transport
\* before anything is written.  The locals of the token phase end here.
Dispatch(t) ==
  /\ call[t].pc = "token"
  /\ IF ~IsSupportedMethod(call[t].method)
     THEN Return(t, Result("unsupported", 0, 0, <<>>))
     ELSE IF Done(call[t].ctx)
     THEN Return(t, Result("cancelled", 0, 0, <<>>))
     ELSE /\ call' = [call EXCEPT ![t] =
                        [Idle EXCEPT !.pc = "fly", !.op = "request",
                                     !.ctx = call[t].ctx,
                                     !.bearer = accessToken, !.attempts = 1]]
          /\ UNCHANGED res
  /\ UNCHANGED <<clientVars, authVars, rateLimiter, tokenVars, now>>

\* client.go:171-177 and 455-464: an attempt ends.  With a live context resty
\* decides on a retry; with a cancelled one it returns what it has at once.
ResourceRespond(t) ==
  /\ call[t].pc = "fly"
  /\ \/ Return(t, Result(IF Done(call[t].ctx) THEN "cancelled" ELSE "neterr",
                         0, 0, <<>>))
     \/ \E status \in ResourceStatuses, body \in ErrorBodies :
          IF ~Done(call[t].ctx) /\ NeedsRetry(status, call[t].attempts)
          THEN /\ call' = [call EXCEPT ![t].pc = "backoff",
                                       ![t].status = status]
               /\ UNCHANGED res
          ELSE Return(t, Classify(status, body))
  /\ UNCHANGED <<clientVars, authVars, rateLimiter, tokenVars, now>>

\* mutant: a further attempt takes a permit when there is one
RetryAttemptTakesPermit(t) ==
  /\ call[t].pc = "backoff"
  /\ IF Done(call[t].ctx)
     THEN Return(t, Result("cancelled", 0, 0, <<>>)) /\ UNCHANGED rateLimiter
     ELSE /\ call' = [call EXCEPT ![t].pc = "fly", ![t].attempts = @ + 1,
                                  ![t].status = 0]
          /\ rateLimiter' = IF rateLimiter > 0 THEN rateLimiter - 1 ELSE 0
          /\ UNCHANGED res
  /\ UNCHANGED <<clientVars, authVars, tokenVars, now>>

\* resty's wait between attempts (client.go:171): it ends with the next
\* attempt, or with the context's error
RetryAttempt(t) ==
  /\ call[t].pc = "backoff"
  /\ IF Done(call[t].ctx)
     THEN Return(t, Result("cancelled", 0, 0, <<>>))
     ELSE /\ call' = [call EXCEPT ![t].pc = "fly", ![t].attempts = @ + 1,
                                  ![t].status = 0]
          /\ UNCHANGED res
  /\ UNCHANGED <<clientVars, authVars, rateLimiter, tokenVars, now>>

\* the caller cancels the context it passed
Cancel(t) ==
  /\ call[t].pc # "idle" /\ ~Done(call[t].ctx)
  /\ call' = [call EXCEPT ![t].ctx = "cancelled"]
  /\ UNCHANGED <<clientVars, authVars, rateLimiter, tokenVars, now, res>>

(* ------------------- constructors, static token ----------------------- *)

\* client.go:138-223: NewClient.  It returns before anything is built when a
\* credential is missing; else the client starts with an empty token store
\* and, with a positive RateLimit, a full bucket and a running ticker.
NewClient ==
  /\ ~built["NewClient"].client
  /\ \E cfg \in ClientConfigs :
       LET err == NewClientError(cfg)
           c == EffectiveConfig(cfg)
           cap == RateLimiterCapacity(c.RateLimit)
       IN /\ built' = [built EXCEPT !["NewClient"] =
                         [called |-> TRUE, config |-> cfg, err |-> err,
                          client |-> err = "",
                          ticker |-> err = "" /\ c.RateLimit > 0]]
          /\ IF err # ""
             THEN UNCHANGED <<readOnly, rateLimit, rateLimiter>>
             ELSE /\ readOnly' = c.ReadOnly
                  /\ rateLimit' = cap /\ rateLimiter' = cap
  /\ UNCHANGED <<sequential, released, tokenMutex, auth, wire, tokenVars, now,
                 call, res>>

\* auth_client.go:30-60: NewAuthClient.  company.NewClient and
\* general.NewClient take a base URL and the HTTP doer and return no error.
NewAuthClient ==
  /\ ~auth.live
  /\ \E cfg \in AuthConfigs :
       LET err == NewAuthClientError(cfg)
       IN /\ built' = [built EXCEPT !["NewAuthClient"] =
                         [called |-> TRUE, config |-> cfg, err |-> err,
                          client |-> err = "", ticker |-> FALSE]]
          /\ auth' = IF err # "" THEN auth
                     ELSE [live |-> TRUE, token |-> cfg.IntegrationToken,
                           readOnly |-> cfg.ReadOnly]
  /\ UNCHANGED <<clientVars, wire, rateLimiter, tokenVars, now, call, res>>

\* the Authorization header a caller may have put on the request
PriorAuthorizations == {<<>>, <<"Basic", "x">>, <<"Bearer", "stale">>}

\* mutant: a header the request already has is kept
DoAuthorizationKeepsPrior(token, prior) ==
  IF prior = <<>> THEN <<"Bearer", token>> ELSE prior

\* auth_client.go:79: req.Header.Set("Authorization", "Bearer "+c.token)
DoAuthorization(token, prior) == <<"Bearer", token>>

\* auth_client.go:77-83: authenticatedHTTPClient.Do, reached through the
\* generated clients: the header is set and the request handed to
\* http.DefaultClient, whatever its method
AuthDo ==
  /\ auth.live
  /\ \E m \in Methods, p \in Paths, h \in PriorAuthorizations :
       wire' = [method |-> m, path |-> p, prior |-> h,
                authorization |-> DoAuthorization(auth.token, h)]
  /\ UNCHANGED <<clientVars, built, auth, rateLimiter, tokenVars, now, call, res>>

\* auth_client.go:96-98
AuthClientIsAuthenticated(a) == a.token # ""

AuthIsAuthenticatedCall ==
  /\ auth.live
  /\ res' = [res EXCEPT !["main"] =
               Result("bool", 0, 0, <<AuthClientIsAuthenticated(auth)>>)]
  /\ UNCHANGED <<clientVars, authVars, rateLimiter, tokenVars, now, call>>

(* ------------------------ accessors, clocks --------------------------- *)

\* client.go:529-536
SetTokens(t) ==
  /\ CanStart(t)
  /\ \E a \in InputAccessTokens \cup {""}, r \in InputRefreshTokens \cup {""},
        e \in {ZeroTime} \cup {now + d : d \in ExpiresInValues} :
       /\ accessToken' = a /\ refreshToken' = r /\ tokenExpiry' = e
  /\ Return(t, Result("ok", 0, 0, <<>>))
  /\ UNCHANGED <<clientVars, authVars, rateLimiter, tenantID, tenantType, now>>

\* client.go:522-527
IsAuthenticatedCall(t) ==
  /\ CanStart(t)
  /\ Return(t, Result("bool", 0, 0, <<IsAuthenticated>>))
  /\ UNCHANGED <<clientVars, authVars, rateLimiter, tokenVars, now>>

\* client.go:515-520
GetTenantInfoCall(t) ==
  /\ CanStart(t)
  /\ Return(t, Result("tenant", 0, 0, GetTenantInfo))
  /\ UNCHANGED <<clientVars, authVars, rateLimiter, tokenVars, now>>

\* mutant: the tick is deposited whether or not the bucket is full
RateLimiterDepositAlways(n, cap) == n + 1

\* client.go:203-206: the non-blocking send of one permit; select's default
\* drops it when the channel is full
RateLimiterDeposit(n, cap) == IF n < cap THEN n + 1 ELSE n

\* client.go:199-208: a tick of the ticker goroutine
RateLimiterTick ==
  /\ rateLimit > 0
  /\ rateLimiter' = RateLimiterDeposit(rateLimiter, rateLimit)
  /\ UNCHANGED <<clientVars, authVars, tokenVars, now, call, res>>

\* main.go:46-100: the application is done with the client (run returns); the
\* client has no method to call at that point, and nothing ends the ticker
\* goroutine's loop over ticker.C (client.go:199-208)
Release ==
  /\ ~released /\ \A t \in Threads : call[t].pc = "idle"
  /\ released' = TRUE
  /\ UNCHANGED <<configVars, tokenMutex, authVars, rateLimiter, tokenVars, now,
                 call, res>>

\* time passes
Tick ==
  /\ now < MaxTime
  /\ now' = now + 1
  /\ UNCHANGED <<clientVars, authVars, rateLimiter, tokenVars, call, res>>

Next ==
  \/ \E t \in Threads :
       \/ MakeRequest(t) \/ RateLimitAcquire(t) \/ EnsureValidToken(t)
       \/ RefreshSend(t) \/ RefreshRespond(t) \/ Dispatch(t)
       \/ ResourceRespond(t) \/ RetryAttempt(t) \/ Cancel(t)
       \/ ExchangeCodeForToken(t) \/ ExchangeRespond(t)
       \/ AuthenticateClientCredentials(t) \/ ClientCredentialsRespond(t)
       \/ RefreshAccessToken(t) \/ SetTokens(t)
       \/ IsAuthenticatedCall(t) \/ GetTenantInfoCall(t)
  \/ RateLimiterTick
  \/ Release
  \/ Tick

\* before any constructor is called: every field is zero
InitAuth ==
  /\ readOnly = FALSE /\ rateLimit = 0 /\ rateLimiter = 0
  /\ sequential = TRUE /\ released = FALSE
  /\ tokenMutex = Unlocked
  /\ built = NoCalls /\ auth = NoAuthClient /\ wire = NoRequest
  /\ accessToken = "" /\ refreshToken = "" /\ tokenExpiry = ZeroTime
  /\ tenantID = "" /\ tenantType = ""
  /\ now = 1
  /\ call = [t \in Threads |-> Idle]
  /\ res = [t \in Threads |-> NoResult]

NextAuth ==
  \/ NewClient
  \/ NewAuthClient
  \/ AuthDo
  \/ AuthIsAuthenticatedCall
  \/ RateLimiterTick

Spec == Init /\ [][Next]_vars
AuthSpec == InitAuth /\ [][NextAuth]_vars
SeqSpec == InitSeq /\ [][Next]_vars

TypeOK ==
  /\ readOnly \in BOOLEAN /\ rateLimiter \in 0..RateLimit
  /\ now \in 1..MaxTime
  /\ \A t \in Threads : call[t].attempts \in 0..(MaxRetries + 1)

(* ------------- the token lock, one section at a time ------------------ *)

\* LockSpec takes the sections guarded by tokenMutex apart: taking the lock
\* is a step, the section's reads or writes together with the release another,
\* and a read made outside any section a step of its own.  What happens
\* between the sections (the gate, the rate limiter, the requests in flight)
\* is as above.  The token endpoint issues tokens by session: an authorization
\* code opens a session, a refresh answers in the session of the refresh token
\* it was sent, client credentials come without refresh token.

Session1 == [access |-> "A1", refresh |-> "R1", tenant |-> "T1"]
Session2 == [access |-> "A2", refresh |-> "R2", tenant |-> "T2"]
Sessions == {Session1, Session2}
SessionOf(x) == CHOOSE s \in Sessions : x \in {s.access, s.refresh, s.tenant}

SessionBody(s, r, e) ==
  [json |-> TRUE, access_token |-> s.access, refresh_token |-> r,
   expires_in |-> e, tenant_id |-> s.tenant, tenant_type |-> "company"]

\* the bodies POST /token answers operation o with; snap: the refresh token
\* the request carried (client.go:301-304)
TokenReplies(o, snap) ==
  {Malformed} \cup
  CASE o = "exchange" ->
         {SessionBody(s, s.refresh, e) : s \in Sessions, e \in ExpiresInValues}
    [] o \in {"refresh", "request"} ->
         {SessionBody(SessionOf(snap), r, e) :
            r \in {SessionOf(snap).refresh, Absent}, e \in ExpiresInValues}
    [] OTHER ->
         {SessionBody(s, Absent, e) : s \in Sessions, e \in ExpiresInValues}

\* sync.RWMutex: RLock waits for the writer to leave, Lock for everybody
RLock(t) ==
  /\ tokenMutex.writer = "none"
  /\ tokenMutex' = [tokenMutex EXCEPT !.readers = @ \cup {t}]
RUnlock(t) == tokenMutex' = [tokenMutex EXCEPT !.readers = @ \ {t}]
Lock(t) ==
  /\ tokenMutex.writer = "none" /\ tokenMutex.readers = {}
  /\ tokenMutex' = [tokenMutex EXCEPT !.writer = t]
Unlock(t) == tokenMutex' = [tokenMutex EXCEPT !.writer = "none"]

\* what the steps between the sections leave alone
lockFrame == <<configVars, released, authVars, rateLimiter, now>>

\* the operations that only read the token state
Getters == {"isauth", "tenant", "gettokens"}

\* client.go:291, 383, 424, 517, 524, 540: c.tokenMutex.RLock()
AcquireShared(t) ==
  /\ call[t].pc \in {"refresh", "ensure", "token", "get"}
  /\ RLock(t)
  /\ Goto(t, CASE call[t].pc = "refresh" -> "refresh.read"
               [] call[t].pc = "ensure" -> "ensure.read"
               [] call[t].pc = "token" -> "token.read"
               [] OTHER -> "get.read")
  /\ UNCHANGED <<lockFrame, tokenVars>>

\* client.go:277, 328, 370, 531: c.tokenMutex.Lock()
AcquireExclusive(t) ==
  /\ call[t].pc \in {"store", "set"}
  /\ Lock(t)
  /\ Goto(t, IF call[t].pc = "store" THEN "store.write" ELSE "set.write")
  /\ UNCHANGED <<lockFrame, tokenVars>>

\* client.go:384-398 and 418-421: ensureValidToken's reads, the release and
\* the decision on what was read
CheckRead(t) ==
  /\ call[t].pc = "ensure.read"
  /\ RUnlock(t)
  /\ LET hasToken == HasToken(accessToken)
         isExpired == IsExpired(now, tokenExpiry)
         hasRefreshToken == refreshToken # ""
     IN IF ~hasToken
        THEN Return(t, Result("notauth", 0, 0, <<>>))
        ELSE IF isExpired /\ hasRefreshToken
        THEN Goto(t, "refresh")
        ELSE Goto(t, "token")
  /\ UNCHANGED <<lockFrame, tokenVars>>

\* mutant: the shared lock is released when RefreshAccessToken returns
SnapshotReleaseDeferred(t) == UNCHANGED tokenMutex

\* client.go:293: c.tokenMutex.RUnlock() right after the copy
SnapshotRelease(t) == RUnlock(t)

\* client.go:292-312: RefreshAccessToken copies the refresh token, releases
\* the lock, and returns or posts the copy
SnapshotRead(t) ==
  /\ call[t].pc = "refresh.read"
  /\ SnapshotRelease(t)
  /\ IF ~HasRefreshToken(refreshToken)
     THEN Return(t, Result("norefresh", 0, 0, <<>>))
     ELSE /\ call' = [call EXCEPT ![t].pc = "rfly", ![t].tokReqs = @ + 1,
                                  ![t].snap = refreshToken]
          /\ UNCHANGED res
  /\ UNCHANGED <<lockFrame, tokenVars>>

\* client.go:263-274, 314-325, 356-367: the POST /token round trip; a decoded
\* 200 response is kept in tokenResp for the store
TokenReply(t) ==
  /\ call[t].pc = "rfly"
  /\ \/ TokenFailure(t, Result("neterr", 0, 0, <<>>))
     \/ \E status \in TokenStatuses :
          /\ NeedsRetry(status, call[t].tokReqs)
          /\ call' = [call EXCEPT ![t].tokReqs = @ + 1]
          /\ UNCHANGED <<tokenVars, res>>
     \/ \E status \in TokenStatuses \ {StatusOK}, body \in ErrorBodies :
          /\ ~NeedsRetry(status, call[t].tokReqs)
          /\ TokenFailure(t, handleAPIError(status, body))
     \/ \E body \in TokenReplies(call[t].op, call[t].snap) :
          LET tr == ParseTokenResponse(body)
          IN IF ~tr.ok
             THEN TokenFailure(t, Result("decode", 0, 0, <<>>))
             ELSE /\ call' = [call EXCEPT ![t].pc = "store", ![t].tokReqs = 0,
                                          ![t].snap = "", ![t].tokenResp = tr]
                  /\ UNCHANGED <<tokenVars, res>>
  /\ UNCHANGED <<lockFrame, tokenMutex>>

\* client.go:278-283, 329-334, 371-375: the writes of the store and the
\* Unlock; RefreshAccessToken inside a request call returns to makeRequest
StoreWrite(t) ==
  /\ call[t].pc = "store.write"
  /\ Unlock(t)
  /\ LET tr == call[t].tokenResp
         o == call[t].op
     IN /\ CASE o = "exchange" -> StoreExchange(tr)
             [] o \in {"refresh", "request"} -> StoreRefresh(tr)
             [] OTHER -> StoreClientCredentials(tr)
        /\ CASE o = "exchange" ->
                  /\ call' = [call EXCEPT ![t].pc = "exchange.log",
                                          ![t].tokenResp = ZeroTokenResponse]
                  /\ UNCHANGED res
             [] o = "request" ->
                  /\ call' = [call EXCEPT ![t].pc = "token",
                                          ![t].tokenResp = ZeroTokenResponse]
                  /\ UNCHANGED res
             [] OTHER -> Return(t, Result("ok", StatusOK, 0, <<>>))
  /\ UNCHANGED lockFrame

TokenFields ==
  {"accessToken", "refreshToken", "tokenExpiry", "tenantID", "tenantType"}

\* the token fields the step t is about to take reads
FieldsRead(t) ==
  CASE call[t].pc = "ensure.read" -> {"accessToken", "tokenExpiry", "refreshToken"}
    [] call[t].pc = "refresh.read" -> {"refreshToken"}
    [] call[t].pc = "token.read" -> {"accessToken"}
    [] call[t].pc = "exchange.log" -> {"tenantID"}
    [] call[t].pc = "get.read" ->
         CASE call[t].op = "isauth" -> {"accessToken", "tokenExpiry"}
           [] call[t].op = "tenant" -> {"tenantID", "tenantType"}
           [] OTHER -> {"accessToken", "refreshToken", "tokenExpiry"}
    [] OTHER -> {}

\* the token fields the step t is about to take writes
FieldsWritten(t) ==
  CASE call[t].pc = "store.write" ->
         CASE call[t].op = "exchange" -> TokenFields
           [] call[t].op \in {"refresh", "request"} ->
                {"accessToken", "refreshToken", "tokenExpiry"}
           [] OTHER -> {"accessToken", "tokenExpiry", "tenantID", "tenantType"}
    [] call[t].pc = "set.write" -> {"accessToken", "refreshToken", "tokenExpiry"}
    [] OTHER -> {}

\* what the read of c.tenantID at client.go:285 can give: the stored value,
\* or, when another caller is inside a section that writes the field, the
\* value being written or a string that is neither (the read is not ordered
\* with the write)
LoggedTenantID(t) ==
  {tenantID} \cup
  UNION {{call[u].tokenResp.TenantID, "<torn>"} :
           u \in {v \in Threads \ {t} : "tenantID" \in FieldsWritten(v)}}

\* client.go:285-286: ExchangeCodeForToken logs c.tenantID after the Unlock
\* and returns; detail: what was logged
ExchangeLog(t) ==
  /\ call[t].pc = "exchange.log"
  /\ \E v \in LoggedTenantID(t) : Return(t, Result("ok", StatusOK, 0, <<v>>))
  /\ UNCHANGED <<lockFrame, tokenMutex, tokenVars>>

\* client.go:425-453: makeRequest copies the access token, releases the lock
\* and sends the request with the copy
BearerRead(t) ==
  /\ call[t].pc = "token.read"
  /\ RUnlock(t)
  /\ IF ~IsSupportedMethod(call[t].method)
     THEN Return(t, Result("unsupported", 0, 0, <<>>))
     ELSE IF Done(call[t].ctx)
     THEN Return(t, Result("cancelled", 0, 0, <<>>))
     ELSE /\ call' = [call EXCEPT ![t] =
                        [Idle EXCEPT !.pc = "fly", !.op = "request",
                                     !.ctx = call[t].ctx,
                                     !.bearer = accessToken, !.attempts = 1]]
          /\ UNCHANGED res
  /\ UNCHANGED <<lockFrame, tokenVars>>

\* client.go:530: SetTokens called
SetTokensEnter(t) ==
  /\ CanStart(t)
  /\ Enter(t, "settokens", "GET", "live", "set", 0)
  /\ UNCHANGED <<clientVars, authVars, rateLimiter, tokenVars, now>>

\* client.go:532-535: SetTokens' writes and the deferred Unlock; the
\* application restores a session it saved, or clears the tokens
SetTokensWrite(t) ==
  /\ call[t].pc = "set.write"
  /\ Unlock(t)
  /\ \/ \E s \in Sessions, e \in ExpiresInValues :
          /\ accessToken' = s.access /\ refreshToken' = s.refresh
          /\ tokenExpiry' = now + e
     \/ accessToken' = "" /\ refreshToken' = "" /\ tokenExpiry' = ZeroTime
  /\ Return(t, Result("ok", 0, 0, <<>>))
  /\ UNCHANGED <<lockFrame, tenantID, tenantType>>

\* client.go:516, 523, 539: GetTenantInfo, IsAuthenticated or GetTokens called
GetterEnter(t) ==
  /\ CanStart(t)
  /\ \E o \in Getters : Enter(t, o, "GET", "live", "get", 0)
  /\ UNCHANGED <<clientVars, authVars, rateLimiter, tokenVars, now>>

\* client.go:518-519, 525-526, 541-542: the getter's reads and the deferred
\* RUnlock
GetterRead(t) ==
  /\ call[t].pc = "get.read"
  /\ RUnlock(t)
  /\ Return(t, CASE call[t].op = "isauth" ->
                      Result("bool", 0, 0, <<IsAuthenticated>>)
                 [] call[t].op = "tenant" ->
                      Result("tenant", 0, 0, GetTenantInfo)
                 [] OTHER ->
                      Result("tokens", 0, 0,
                             <<accessToken, refreshToken, tokenExpiry>>))
  /\ UNCHANGED <<lockFrame, tokenVars>>

NextLock ==
  \/ \E t \in Threads :
       \/ MakeRequest(t) \/ RateLimitAcquire(t)
       \/ ExchangeCodeForToken(t) \/ AuthenticateClientCredentials(t)
       \/ RefreshAccessToken(t) \/ SetTokensEnter(t) \/ GetterEnter(t)
       \/ AcquireShared(t) \/ AcquireExclusive(t)
       \/ CheckRead(t) \/ SnapshotRead(t) \/ BearerRead(t) \/ GetterRead(t)
       \/ TokenReply(t) \/ StoreWrite(t) \/ ExchangeLog(t) \/ SetTokensWrite(t)
       \/ ResourceRespond(t) \/ RetryAttempt(t)
  \/ Tick

\* the rate limiter has no part in the locking: it is left off
InitLock == Init /\ rateLimit = 0

LockSpec == InitLock /\ [][NextLock]_vars

(* ======================= properties: C1 - C10 ========================= *)

MutatingMethods == {"POST", "PUT", "PATCH", "DELETE"}
NonMutatingMethods == {"GET", "HEAD", "OPTIONS"}

\* the step taken returns caller t from an operation
Returns(t) == call[t].pc # "idle" /\ call'[t].pc = "idle"
\* the step taken is a whole call of t that returned at once with kind k
ReturnsAtOnce(t, k) ==
  call[t].pc = "idle" /\ call'[t].pc = "idle" /\ res'[t] # res[t] /\ res'[t].kind = k

\* C1: with readOnly set, a call with a mutating method returns the
\* read-only error naming "<method> <path>" in the one step of the gate: it
\* never gets to the rate limiter, the token check or a request, and it leaves
\* bucket, token state and clock as they were.
C1_ReadOnlyBlocksWrites ==
  [][\A t \in Threads :
       /\ readOnly' /\ call'[t].op = "request"
            => /\ call'[t].method \notin MutatingMethods
               /\ call'[t].pc = "acquire" => call'[t].method \in NonMutatingMethods
       /\ res'[t].kind = "readonly"
            => /\ readOnly
               /\ res'[t].detail \in MutatingMethods \X Paths
               /\ call'[t] = Idle
       /\ ReturnsAtOnce(t, "readonly")
            => /\ UNCHANGED <<rateLimiter, tokenVars, now, configVars>>
               /\ \A u \in Threads \ {t} : call'[u] = call[u] /\ res'[u] = res[u]
               /\ call[t].tokReqs = 0 /\ call[t].attempts = 0
               /\ call'[t].tokReqs = 0 /\ call'[t].attempts = 0
    ]_vars

\* C1 witness: a PATCH was blocked on an authenticated client whose token is
\* due for refresh and whose bucket is empty; nothing was refreshed or taken.
C1_Witness ==
  /\ readOnly /\ res["main"].kind = "readonly"
  /\ res["main"].detail = <<"PATCH", "/customers">>
  /\ accessToken # "" /\ refreshToken # "" /\ tokenExpiry <= now
  /\ rateLimit > 0 /\ rateLimiter = 0

\* C2: the gate never stops GET, HEAD or OPTIONS: no read-only error names
\* one of them, and in every reachable state the gate's verdict on them with
\* the client's readOnly is its verdict with readOnly off (no error), so the
\* call goes on exactly as on a writable client.
C2_ReadOnlyPassesReads ==
  /\ \A t \in Threads :
       res[t].kind = "readonly" => res[t].detail[1] \notin NonMutatingMethods
  /\ \A m \in NonMutatingMethods, p \in Paths :
       /\ ReadOnlyGate(readOnly, m, p) = ReadOnlyGate(FALSE, m, p)
       /\ ReadOnlyGate(readOnly, m, p) = NoResult

\* C2 witness: on a read-only client a HEAD call is past the gate, waiting
\* for its permit.
C2_Witness ==
  /\ readOnly
  /\ call["main"].op = "request" /\ call["main"].method = "HEAD"
  /\ call["main"].pc = "acquire"

\* the step taken sends t's first resource request
SendsResource(t) == call[t].pc = "token" /\ call'[t].pc = "fly"

\* C3 as claimed: a request call whose token check found a token with expiry
\* in the past and a refresh token has sent exactly one token-endpoint
\* request when it sends its resource request, and that request carries the
\* access token the refresh response issued.
C3_ExactlyOneTokenRequest ==
  [][\A t \in Threads :
       SendsResource(t) /\ call[t].check = "past"
         => call[t].tokReqs = 1 /\ call'[t].bearer = call[t].got
    ]_vars

\* C3 amended: with expiry in the past, an access token and a refresh token,
\* the token check starts a refresh; the call has sent between one and
\* MaxRetries+1 token-endpoint requests (resty repeats the POST on 5xx/429),
\* none of them still in flight, when it sends its resource request; and with
\* no other caller writing the token store that request carries the access
\* token the refresh response issued.
C3_RefreshBeforeResource ==
  [][\A t \in Threads :
       /\ call[t].pc = "ensure" /\ call'[t].pc # "ensure"
          /\ accessToken # "" /\ refreshToken # "" /\ tokenExpiry <= now
            => call'[t].pc = "refresh" /\ call'[t].check = "past"
       /\ call'[t].op = "request" /\ call'[t].pc = "rfly"
            => call'[t].attempts = 0 /\ call'[t].tokReqs \in 1..(MaxRetries + 1)
       /\ SendsResource(t) /\ call[t].check = "past"
            => /\ call[t].tokReqs \in 1..(MaxRetries + 1)
               /\ call'[t].bearer = call[t].got
               /\ call'[t].attempts = 1
    ]_vars

\* C3 witness: the token check found the expiry passed, the refresh took a
\* retry and stored a new token, and the resource request is about to go out.
C3_Witness ==
  /\ call["main"].pc = "token" /\ call["main"].check = "past"
  /\ call["main"].tokReqs = MaxRetries + 1 /\ ~Done(call["main"].ctx)
  /\ call["main"].got = "A2" /\ accessToken = "A2" /\ call["main"].method = "GET"

\* refresh requests in flight
RefreshInFlight ==
  {t \in Threads : call[t].pc = "rfly" /\ call[t].op \in {"request", "refresh"}}

\* C4 as claimed: never two refresh requests in flight at once.
C4_AtMostOneRefresh == Cardinality(RefreshInFlight) <= 1

\* C4 amended: refreshes of concurrent callers are not excluded; what holds
\* is that a request call starts a refresh only when its own token check read
\* an access token, a refresh token and an expiry less than the skew away,
\* sends its refresh requests before any resource request, and sends at most
\* MaxRetries+1 of them.
C4_RefreshOnlyWhenDue ==
  [][\A t \in Threads :
       /\ call[t].pc = "ensure" /\ call'[t].pc = "refresh"
            => /\ accessToken # "" /\ refreshToken # ""
               /\ now + RefreshSkew > tokenExpiry
       /\ call'[t].pc = "rfly" /\ call'[t].op = "request"
            => /\ call'[t].check \in {"window", "past"}
               /\ call'[t].attempts = 0
               /\ call'[t].tokReqs \in 1..(MaxRetries + 1)
    ]_vars

\* C4 witness: two callers found the token inside the refresh window and both
\* their refresh requests are in flight.
C4_Witness ==
  /\ Cardinality(RefreshInFlight) = 2
  /\ \A t \in Threads : call[t].op = "request" /\ call[t].check = "window"

\* C5 as claimed: a request call made with a context that is already done
\* sends nothing, neither to the token endpoint nor to a resource, and what
\* it returns past the gate is the cancellation error.
C5_CancelledBeforeCall ==
  [][\A t \in Threads :
       /\ call'[t].op = "request" /\ call'[t].ctx = "precancelled"
            => call'[t].tokReqs = 0 /\ call'[t].attempts = 0
       /\ Returns(t) /\ call[t].op = "request" /\ call[t].ctx = "precancelled"
            => res'[t].kind = "cancelled"
    ]_vars

\* the statuses the claimed retry policy repeats a request on
RetryableStatus(status) == status >= 500 \/ status = 429
\* the step taken sends a further attempt of t's resource request
SendsRetry(t) == call[t].attempts >= 1 /\ call'[t].attempts = call[t].attempts + 1
\* the step taken ends t's resource request with an HTTP response
ReturnsResponse(t) ==
  Returns(t) /\ call[t].pc = "fly" /\ res'[t].kind \in {"ok", "apierror"}

\* C6 as claimed: a further attempt is made if and only if the previous one
\* returned 5xx or 429 and fewer than MaxRetries retries were made: attempts
\* follow only such a response, and a call ends neither on such a response
\* nor in the wait that follows it.
C6_RetryIff ==
  [][\A t \in Threads :
       /\ SendsRetry(t)
            => RetryableStatus(call[t].status) /\ call[t].attempts <= MaxRetries
       /\ ReturnsResponse(t) /\ RetryableStatus(res'[t].status)
            => call[t].attempts = MaxRetries + 1
       /\ Returns(t) => call[t].pc # "backoff"
    ]_vars

\* C6 amended: the same while the call's context is not done.  A further
\* attempt follows only a 5xx/429 response with retries left; with a live
\* context a call ends on a 5xx/429 response only after MaxRetries+1 attempts
\* and never ends in the wait between attempts; a done context ends the wait
\* with the cancellation error and no further attempt.  Any other response
\* ends the call at once, and at most MaxRetries+1 attempts are made.
C6_RetryIffLive ==
  [][\A t \in Threads :
       /\ SendsRetry(t)
            => /\ RetryableStatus(call[t].status) /\ call[t].attempts <= MaxRetries
               /\ ~Done(call[t].ctx) /\ call[t].pc = "backoff"
       /\ ReturnsResponse(t) /\ RetryableStatus(res'[t].status) /\ ~Done(call[t].ctx)
            => call[t].attempts = MaxRetries + 1
       /\ Returns(t) /\ call[t].pc = "backoff"
            => Done(call[t].ctx) /\ res'[t].kind = "cancelled"
       /\ call[t].pc = "fly" /\ call'[t].pc = "backoff"
            => RetryableStatus(call'[t].status) /\ call[t].attempts <= MaxRetries
       /\ call'[t].attempts <= MaxRetries + 1
    ]_vars

\* C6 witness: every earlier attempt of a call was answered 5xx or 429 and
\* its MaxRetries+1-th attempt is in flight, the context still live.
C6_Witness ==
  /\ call["main"].pc = "fly" /\ call["main"].attempts = MaxRetries + 1
  /\ ~Done(call["main"].ctx)

\* C7 as claimed: a final response below 400 is returned without error; one
\* of 400 or more comes with an APIError whose code is that HTTP status,
\* whatever the body.
C7_APIErrorHasHTTPStatus ==
  [][\A t \in Threads :
       Returns(t) /\ call[t].pc = "fly" /\ res'[t].status # 0
         => /\ res'[t].status < 400 => res'[t].kind = "ok"
            /\ res'[t].status >= 400
                 => res'[t].kind = "apierror" /\ res'[t].code = res'[t].status
    ]_vars

\* C8 as claimed: with no access token stored, every request call past the
\* read-only gate returns the not-authenticated error and sends nothing.
C8_NotAuthenticated ==
  [][\A t \in Threads :
       /\ call[t].op = "request" /\ call[t].pc \in {"acquire", "ensure"}
          /\ accessToken = ""
            => /\ call[t].tokReqs = 0 /\ call[t].attempts = 0
               /\ call'[t].pc \in {"acquire", "ensure", "idle"}
       /\ Returns(t) /\ call[t].op = "request"
          /\ call[t].pc \in {"acquire", "ensure"} /\ accessToken = ""
            => res'[t].kind = "notauth"
    ]_vars

\* C8 amended: with no access token stored, a request call past the gate
\* sends nothing and returns the not-authenticated error from the token check
\* unless its context is done while it waits for a permit: then it returns
\* the cancellation error, also without sending anything.
C8_NotAuthenticatedOrCancelled ==
  [][\A t \in Threads :
       /\ call[t].op = "request" /\ call[t].pc \in {"acquire", "ensure"}
          /\ accessToken = ""
            => /\ call[t].tokReqs = 0 /\ call[t].attempts = 0
               /\ call'[t].tokReqs = 0 /\ call'[t].attempts = 0
               /\ call'[t].pc \in {"acquire", "ensure", "idle"}
               /\ UNCHANGED tokenVars
       /\ call[t].pc = "ensure" /\ call'[t] # call[t] /\ accessToken = ""
          /\ call'[t].ctx = call[t].ctx
            => call'[t].pc = "idle" /\ res'[t].kind = "notauth"
       /\ Returns(t) /\ call[t].pc = "acquire"
            => /\ res'[t].kind = "cancelled" /\ Done(call[t].ctx)
               /\ rateLimit > 0 /\ rateLimiter' = rateLimiter
    ]_vars

\* C8 witness: a freshly built client, never authenticated, has answered a
\* GET with the not-authenticated error after taking its permit.
C8_Witness ==
  /\ res["main"].kind = "notauth" /\ accessToken = "" /\ tokenExpiry = ZeroTime
  /\ refreshToken = "" /\ ~IsAuthenticated
  /\ rateLimit > 0 /\ rateLimiter = 0

\* C9 as claimed: the stored access token is non-empty exactly when
\* IsAuthenticated() is true.
C9_TokenIffAuthenticated == (accessToken # "") <=> IsAuthenticated

\* C9 amended: IsAuthenticated() is true exactly when the stored access token
\* is non-empty and the clock is strictly before tokenExpiry; so it implies a
\* non-empty token, and a non-empty token that has expired is not
\* authenticated.  Every IsAuthenticated() call returns that value.
C9_AuthenticatedIffValidToken ==
  [][/\ IsAuthenticated' <=> (accessToken' # "" /\ now' < tokenExpiry')
     /\ IsAuthenticated' => accessToken' # ""
     /\ \A t \in Threads :
          ReturnsAtOnce(t, "bool")
            => res'[t].detail = <<accessToken # "" /\ now < tokenExpiry>>
    ]_vars

\* C9 witness: IsAuthenticated() returned false on a client holding an
\* access token past its expiry.
C9_Witness ==
  /\ res["main"].kind = "bool" /\ res["main"].detail = <<FALSE>>
  /\ accessToken # "" /\ tokenExpiry <= now /\ tokenExpiry # ZeroTime

\* C10 as claimed: when ExchangeCodeForToken returns without error,
\* IsAuthenticated() is true at once and GetTenantInfo() gives the tenant_id
\* and tenant_type of the response.
C10_ExchangeRoundTrip ==
  [][\A t \in Threads :
       Returns(t) /\ call[t].op = "exchange" /\ res'[t].kind = "ok"
         => IsAuthenticated' /\ GetTenantInfo' = res'[t].detail
    ]_vars

(* ======================= properties: C11 - C20 ======================== *)

\* the errors a token request ends with
TokenErrorKinds == {"neterr", "apierror", "decode"}
\* the step taken ends t's request call inside its refresh
RefreshFails(t) == Returns(t) /\ call[t].pc = "rfly" /\ call[t].op = "request"
\* the token check of a request call made now would start a refresh
RefreshDue ==
  accessToken # "" /\ refreshToken # "" /\ now + RefreshSkew > tokenExpiry

\* C11: a request call that ends inside its refresh returns the refresh's
\* error (network, non-200 or decode), has sent no resource request and has
\* left the token state as it was, so a refresh is still due and the token
\* check of the next request call starts one, which sends its POST; a request
\* call leaves its refresh for the resource request only by storing a token
\* response.
C11_RefreshFailureReturned ==
  [][\A t \in Threads :
       /\ RefreshFails(t)
            => /\ res'[t].kind \in TokenErrorKinds
               /\ res'[t].detail = <<"request">>
               /\ call[t].attempts = 0 /\ call[t].bearer = ""
               /\ UNCHANGED tokenVars
               /\ RefreshDue'
       /\ call[t].op = "request" /\ call[t].pc = "rfly" /\ call'[t].pc = "token"
            => /\ accessToken' = call'[t].got
               /\ \E e \in ExpiresInValues : tokenExpiry' = now + e
       /\ call[t].pc = "ensure" /\ call'[t].pc # "ensure" /\ RefreshDue
            => call'[t].pc = "refresh"
       /\ call[t].op = "request" /\ call[t].pc = "refresh"
          /\ call'[t].pc # "refresh"
            => call'[t].pc = "rfly" /\ call'[t].tokReqs = 1
    ]_vars

\* C11 witness: a request call has returned the token endpoint's error from
\* its refresh; the expired token and the refresh token are still stored.
C11_Witness ==
  /\ res["main"].kind = "apierror" /\ res["main"].detail = <<"request">>
  /\ accessToken # "" /\ refreshToken # "" /\ tokenExpiry <= now

\* C12: with the limiter on the bucket starts full and always holds between
\* 0 and rateLimit permits; a tick adds exactly one permit to a bucket that is
\* not full and is dropped on a full one, and in either case the ticker can
\* tick (it never blocks); only a tick adds permits, and it changes nothing
\* else.
C12_BucketBounds ==
  /\ rateLimit > 0 => rateLimiter = rateLimit
  /\ [][/\ rateLimit' > 0 => rateLimiter' \in 0..rateLimit'
        /\ rateLimit > 0 => ENABLED RateLimiterTick
        /\ \A n \in 0..rateLimit :
             RateLimiterDeposit(n, rateLimit) =
               IF n < rateLimit THEN n + 1 ELSE rateLimit
        /\ rateLimiter' > rateLimiter
             => /\ rateLimiter' = rateLimiter + 1 /\ rateLimiter < rateLimit
                /\ UNCHANGED <<clientVars, authVars, tokenVars, now, call, res>>
       ]_vars

\* C12 witness: a call took a permit from the bucket and a tick has put one
\* back: the bucket is full again while the call goes on.
C12_Witness ==
  /\ rateLimit > 0 /\ rateLimiter = rateLimit
  /\ call["main"].op = "request" /\ call["main"].pc = "fly"

\* t's request call waits for a permit that is not there
WaitsForPermit(t) ==
  /\ call[t].op = "request" /\ call[t].pc = "acquire"
  /\ rateLimit > 0 /\ rateLimiter = 0 /\ ~Done(call[t].ctx)

\* C13: with the limiter on, a request call at the rate limiter has sent
\* nothing; while the bucket is empty and its context live it can take no
\* step of its own and stays where it is; it goes on to the token check only
\* by taking one permit out of a non-empty bucket, and it returns from the
\* wait only with the cancellation error of a done context, taking no permit;
\* once a permit is there or the context is done it can go on.
C13_WaitsForPermit ==
  [][\A t \in Threads :
       /\ call[t].op = "request" /\ call[t].pc = "acquire"
            => call[t].tokReqs = 0 /\ call[t].attempts = 0
       /\ WaitsForPermit(t)
            => /\ ~ENABLED RateLimitAcquire(t)
               /\ call'[t] = call[t] \/ call'[t] = [call[t] EXCEPT !.ctx = "cancelled"]
       /\ call[t].pc = "acquire" /\ (rateLimiter > 0 \/ Done(call[t].ctx))
            => ENABLED RateLimitAcquire(t)
       /\ rateLimit > 0 /\ call[t].pc = "acquire" /\ call'[t].pc = "ensure"
            => rateLimiter > 0 /\ rateLimiter' = rateLimiter - 1
       /\ rateLimit > 0 /\ Returns(t) /\ call[t].pc = "acquire"
            => /\ Done(call[t].ctx) /\ res'[t].kind = "cancelled"
               /\ rateLimiter' = rateLimiter
    ]_vars

\* C13 witness: earlier calls have used up the bucket (a token is stored, so
\* the client has been used) and a request call with a live context is
\* waiting at the empty bucket.
C13_Witness ==
  /\ WaitsForPermit("main")
  /\ accessToken # "" /\ now < tokenExpiry

\* C14 as claimed: once the application has shut the client down the
\* replenishment task has ended: no permit is deposited any more.
C14_NoTickAfterShutdown ==
  [][released => rateLimiter' <= rateLimiter]_vars

\* C15: an AuthClient holds the token it was built with, which is not empty
\* and never changes; IsAuthenticated() is true whenever it is asked; every
\* request handed on by Do carries Authorization: Bearer <that token>,
\* whatever header it came with; and nothing is sent to the token endpoint:
\* what goes out is the caller's request to its resource path, and none of
\* the OAuth2 client's operations runs.
C15_StaticTokenSingleState ==
  [][/\ auth'.live
          => /\ auth'.token # "" /\ AuthClientIsAuthenticated(auth')
             /\ auth'.token = built'["NewAuthClient"].config.IntegrationToken
     /\ auth.live => auth' = auth
     /\ wire' # wire
          => /\ auth.live
             /\ wire'.authorization = <<"Bearer", auth.token>>
             /\ wire'.path \in Paths
     /\ res'["main"].kind = "bool" => res'["main"].detail = <<TRUE>>
     /\ \A t \in Threads : call'[t] = Idle
    ]_vars

\* C15 witness: a request that came with a Basic header has gone out with the
\* construction-time token, and IsAuthenticated() has answered.
C15_Witness ==
  /\ auth.live /\ auth.token = "T2"
  /\ wire.prior = <<"Basic", "x">> /\ wire.authorization = <<"Bearer", "T2">>
  /\ res["main"].kind = "bool"

\* C16 as claimed: an AuthClient built with ReadOnly set hands on no POST,
\* PUT, PATCH or DELETE.
C16_StaticReadOnlyBlocksWrites ==
  auth.live /\ auth.readOnly => wire.method \notin MutatingMethods

C18_NoRefreshToken ==
  [][\A t \in Threads :
       /\ call[t].pc = "refresh" /\ call'[t].pc # "refresh" /\ refreshToken = ""
            => /\ Returns(t) /\ res'[t].kind = "norefresh"
               /\ call[t].tokReqs = 0 /\ call[t].attempts = 0
               /\ UNCHANGED tokenVars
       /\ Returns(t) /\ res'[t].kind = "norefresh"
            => /\ call[t].pc = "refresh" /\ refreshToken = ""
               /\ call[t].tokReqs = 0
       /\ call'[t].pc = "rfly" /\ call'[t].op \in {"refresh", "request"}
            => refreshToken' # "" \/ call[t].pc = "rfly"
    ]_vars

\* C18 witness: a client that holds an access token but no refresh token (as
\* after the client-credentials grant) was asked to refresh and refused.
C18_Witness ==
  /\ res["main"].kind = "norefresh"
  /\ accessToken # "" /\ refreshToken = ""

\* C19: NewClient returns an error exactly when the client ID or the client
\* secret is empty, a nil config included (the default has neither); it then
\* returns no client and starts no ticker, and as long as no client is built
\* there is no bucket and no tick.  NewAuthClient returns an error exactly
\* when the integration token is empty, and then no client; for every other
\* token it returns a client holding that token.
C19_ConstructionErrors ==
  LET nc == built["NewClient"]
      na == built["NewAuthClient"]
  IN /\ nc.called
          => /\ nc.err # "" <=> \/ nc.config.nil
                                \/ nc.config.ClientID = ""
                                \/ nc.config.ClientSecret = ""
             /\ nc.client <=> nc.err = ""
             /\ nc.err # "" => ~nc.ticker
             /\ nc.ticker <=> rateLimit > 0
     /\ ~nc.client
          => rateLimit = 0 /\ rateLimiter = 0 /\ ~ENABLED RateLimiterTick
     /\ na.called
          => /\ na.err # "" <=> na.config.IntegrationToken = ""
             /\ na.client <=> na.err = ""
             /\ na.client <=> auth.live
             /\ na.client => auth.token = na.config.IntegrationToken
     /\ ~na.called => ~auth.live

\* C19 witness: NewClient(nil) and NewAuthClient with an empty token have
\* both returned their error.
C19_Witness ==
  /\ built["NewClient"].called /\ built["NewClient"].config.nil
  /\ built["NewClient"].err # ""
  /\ built["NewAuthClient"].called /\ built["NewAuthClient"].err # ""

\* the operations that end with a token response
TokenOps == {"exchange", "refresh", "clientcreds"}

\* C20: while ExchangeCodeForToken, RefreshAccessToken or
\* AuthenticateClientCredentials is under way no step changes the token state
\* except the one that stores a decoded 200 response and returns without
\* error; so when such a call returns an error, whichever it is, every field
\* of the token state is what it was when the call began.  The same holds of
\* the refresh a request call runs, which ends by going on to the request.
C20_ErrorKeepsTokenState ==
  [][\A t \in Threads :
       /\ call[t].op \in TokenOps /\ call[t].pc # "idle"
          /\ ~(Returns(t) /\ res'[t].kind = "ok")
            => UNCHANGED tokenVars
       /\ Returns(t) /\ call[t].op \in TokenOps /\ res'[t].kind # "ok"
            => /\ res'[t].kind \in TokenErrorKinds \cup {"norefresh"}
               /\ UNCHANGED tokenVars
       /\ call[t].op = "request" /\ call[t].pc \in {"refresh", "rfly"}
          /\ call'[t].pc # "token"
            => UNCHANGED tokenVars
    ]_vars

\* C20 witness: an exchange on a client that already held tokens and a tenant
\* ended with a decode error; the tokens and the tenant are still there.
C20_Witness ==
  /\ res["main"].kind = "decode" /\ res["main"].detail = <<"exchange">>
  /\ accessToken = "A2" /\ refreshToken = "R2" /\ tenantID = "T1"

(* ======================= properties: C21 - C30 ======================== *)

\* the step taken is t's token check (client.go:382-398)
ChecksToken(t) == call[t].pc = "ensure" /\ call'[t].pc # "ensure"

\* C21: the token check decides on the snapshot it reads and sends nothing
\* itself.  It returns the not-authenticated error if and only if the access
\* token is empty; it goes to a refresh if and only if the access token is not
\* empty, now + 5 min is strictly after the expiry and the refresh token is
\* not empty; in every other case it succeeds at once, and the call has sent
\* no token request when its resource request goes out with the stored token,
\* expired or not.
C21_TokenCheckDecision ==
  [][\A t \in Threads :
       /\ ChecksToken(t)
            => /\ UNCHANGED tokenVars
               /\ call[t].tokReqs = 0 /\ call'[t].tokReqs = 0
               /\ call'[t].attempts = 0
               /\ Returns(t) <=> accessToken = ""
               /\ Returns(t) => res'[t].kind = "notauth"
               /\ call'[t].pc = "refresh"
                    <=> /\ accessToken # "" /\ refreshToken # ""
                        /\ now + RefreshSkew > tokenExpiry
               /\ call'[t].pc = "token"
                    <=> /\ accessToken # ""
                        /\ refreshToken = "" \/ now + RefreshSkew <= tokenExpiry
       /\ Returns(t) /\ res'[t].kind = "notauth" => call[t].pc = "ensure"
       /\ SendsResource(t) /\ call[t].check = "valid"
            => call[t].tokReqs = 0 /\ call'[t].bearer = accessToken
    ]_vars

\* C21 witness: a resource request is in flight with a token whose expiry
\* has passed; there is no refresh token, so no refresh was tried.
C21_Witness ==
  /\ call["main"].pc = "fly" /\ call["main"].bearer = accessToken
  /\ accessToken # "" /\ refreshToken = ""
  /\ tokenExpiry # ZeroTime /\ tokenExpiry < now

\* the decoded 200 responses of the token endpoint
OkTokenResponses ==
  {tr \in {ParseTokenResponse(b) : b \in TokenBodies} : tr.ok}
\* the step taken is the store of t's successful refresh (client.go:327-337)
RefreshStores(t) ==
  /\ call[t].pc = "rfly" /\ call[t].op \in {"request", "refresh"}
  /\ call'[t].pc = "token" \/ (Returns(t) /\ res'[t].kind = "ok")

InFlight(t) == call[t].pc \in {"rfly", "fly", "backoff"}

\* C23 as claimed: once the context of a call is cancelled while its HTTP
\* request (to the token endpoint or to a resource) is in flight or between
\* attempts, the call sends nothing more and its next step returns the
\* cancellation error.
C23_CancellationRespected ==
  [][\A t \in Threads :
       InFlight(t) /\ call[t].ctx = "cancelled" /\ call'[t] # call[t]
         => /\ Returns(t) /\ res'[t].kind = "cancelled"
            /\ call'[t].tokReqs <= call[t].tokReqs
            /\ call'[t].attempts <= call[t].attempts
    ]_vars

\* the request calls that have taken a permit and have not returned
Outstanding ==
  {t \in Threads : call[t].op = "request" /\ call[t].pc \notin {"idle", "acquire"}}

\* C26 as claimed: with the limiter on, the calls that have taken a permit
\* and not yet returned are never more than the bucket's capacity.
C26_OutstandingWithinCapacity ==
  rateLimit > 0 => Cardinality(Outstanding) <= rateLimit

\* C26 amended: with the limiter on, the bucket holds between 0 and rateLimit
\* permits; a call joins the outstanding calls only by taking one permit out
\* of a non-empty bucket, one call at a step; a call that returns gives no
\* permit back.  The capacity bounds what the bucket holds, not the number of
\* calls under way.
C26_AdmissionByPermit ==
  [][rateLimit > 0
       => /\ rateLimiter \in 0..rateLimit /\ rateLimiter' \in 0..rateLimit
          /\ Cardinality(Outstanding') > Cardinality(Outstanding)
               => /\ Cardinality(Outstanding') = Cardinality(Outstanding) + 1
                  /\ rateLimiter > 0 /\ rateLimiter' = rateLimiter - 1
          /\ Cardinality(Outstanding') < Cardinality(Outstanding)
               => rateLimiter' = rateLimiter
    ]_vars

\* C26 witness: more calls than the bucket's capacity have each taken a
\* permit (ticks came between them) and none has returned.
C26_Witness ==
  /\ rateLimit > 0 /\ Cardinality(Outstanding) > rateLimit
  /\ \A t \in Threads : call[t].pc = "fly"

\* C27 as claimed: when AuthenticateClientCredentials returns without error
\* the client holds no refresh token.
C27_ClientCredentialsNoRefreshToken ==
  [][\A t \in Threads :
       Returns(t) /\ call[t].op = "clientcreds" /\ res'[t].kind = "ok"
         => refreshToken' = ""
    ]_vars

\* the outcomes of a request call that got past the rate limiter
AdmittedOutcomes ==
  {"notauth", "unsupported", "ok", "apierror", "neterr", "decode", "cancelled"}

\* C28: with the limiter on, a request call past the read-only gate waits at
\* the rate limiter and leaves it either with one permit less in the bucket
\* or, its context done, with the cancellation error and the bucket as it
\* was; it never comes back there, so a call that ends any other way has
\* taken exactly one permit.  No other step takes a permit: not a retry, not
\* a request to the token endpoint, not another operation.
C28_PermitAccounting ==
  [][rateLimit > 0
       => \A t \in Threads :
            /\ call[t].pc = "idle" /\ call'[t].pc # "idle" /\ call'[t].op = "request"
                 => call'[t].pc = "acquire"
            /\ call'[t].pc = "acquire" => call[t].pc \in {"idle", "acquire"}
            /\ call[t].pc = "acquire" /\ call'[t].pc # "acquire"
                 => \/ call'[t].pc = "ensure" /\ rateLimiter' = rateLimiter - 1
                    \/ /\ Returns(t) /\ res'[t].kind = "cancelled"
                       /\ Done(call[t].ctx) /\ rateLimiter' = rateLimiter
            /\ Returns(t) /\ call[t].op = "request" /\ call[t].pc # "acquire"
                 => res'[t].kind \in AdmittedOutcomes
            /\ call[t].pc # "acquire" /\ call'[t] # call[t]
                 => rateLimiter' = rateLimiter
            /\ call'[t].tokReqs > call[t].tokReqs \/ call'[t].attempts > call[t].attempts
                 => rateLimiter' = rateLimiter
    ]_vars

\* C28 witness: one permit is gone from the full bucket, taken by the call
\* whose MaxRetries+1-th resource request is in flight: more requests than
\* permits.
C28_Witness ==
  /\ rateLimit > 0 /\ rateLimiter = rateLimit - 1
  /\ call["main"].pc = "fly" /\ call["main"].attempts = MaxRetries + 1

\* C30 as claimed: no resource request is sent with an empty bearer token.
C30_BearerNeverEmpty ==
  \A t \in Threads : call[t].pc \in {"fly", "backoff"} => call[t].bearer # ""

(* ------------------- properties of the token lock --------------------- *)

\* t holds tokenMutex, shared or exclusively
HoldsLock(t) == t \in tokenMutex.readers \/ tokenMutex.writer = t
\* t is about to take the shared lock
WantsShared(t) == call[t].pc \in {"refresh", "ensure", "token", "get"}

\* C24: a caller with a request to the token endpoint or to a resource in
\* flight, or between two attempts, holds tokenMutex neither shared nor
\* exclusively, so every other caller that wants to read the token state can
\* take the shared lock; and the lock is never held exclusively by one caller
\* while another holds it.
C24_NoLockAcrossIO ==
  /\ \A t \in Threads :
       InFlight(t)
         => /\ ~HoldsLock(t)
            /\ \A u \in Threads \ {t} : WantsShared(u) => ENABLED AcquireShared(u)
  /\ tokenMutex.writer # "none"
       => tokenMutex.readers = {} /\ tokenMutex.writer \in Threads

\* C24 witness: while one caller's refresh request is in flight the other
\* holds the shared lock and reads the token state.
C24_Witness ==
  /\ call["main"].pc = "rfly" /\ call["main"].op = "refresh"
  /\ call["other"].pc = "get.read" /\ "other" \in tokenMutex.readers

\* C25 as claimed: whoever is about to write a token field holds the lock
\* exclusively, and whoever is about to read one holds it shared or
\* exclusively.
C25_AccessUnderLock ==
  \A t \in Threads :
    /\ FieldsWritten(t) # {} => tokenMutex.writer = t
    /\ FieldsRead(t) # {} => HoldsLock(t)

\* the authorization sessions the stored tokens and tenant belong to
SessionsStored ==
  {SessionOf(x) : x \in {accessToken, refreshToken, tenantID} \ {""}}

\* C29 as claimed: the store of a refresh leaves access token, refresh token
\* and tenant of one session, if they were of one session before it: it
\* never puts the refreshed access token of one session beside the refresh
\* token and tenant of another that was stored meanwhile.
C29_RefreshKeepsSession ==
  [][\A t \in Threads :
       /\ call[t].pc = "store.write" /\ call[t].op \in {"refresh", "request"}
       /\ call'[t].pc # "store.write"
       /\ Cardinality(SessionsStored) <= 1
       => Cardinality(SessionsStored') <= 1
    ]_vars

====
